---- MODULE Spec2Model ----
(***************************************************************************)
(* Model of tools_webrtc/iwyu/apply_include_cleaner.py: the driver that    *)
(* runs clang-include-cleaner over a list of files, and the two textual    *)
(* adjustments it makes (to the cleaner's output and to the file content). *)
(*                                                                         *)
(* Text is modelled as Python strings are: a sequence of characters.  An   *)
(* ASCII character is the one-character string holding it; a character     *)
(* outside ASCII is the string naming its code point, "U+" and four        *)
(* upper-case hexadecimal digits ("U+00E9"), so that the module is ASCII   *)
(* and reads the same under every file encoding.  Regular expressions are  *)
(* sequences of atoms: a literal character, or DOT (any character but a    *)
(* newline).                                                               *)
(***************************************************************************)
EXTENDS Integers, Sequences, FiniteSets, TLC

----------------------------------------------------------------------------
(* Bounds of the model *)

\* Longest list of files on the command line.
MaxFiles == 2
\* Most lines in a file content drawn for the content rewrite.
MaxLines == 2
\* Most lines in a cleaner stdout drawn for the output adjustment.
MaxOutLines == 2
\* Successive applications of the content rewrite to one content.
MaxPasses == 2

----------------------------------------------------------------------------
(* Text helpers *)

NL == "\n"

\* Atom of a regular expression matching any character except a newline.
DOT == "<dot>"

\* s[i..] as a sequence (empty when i > Len(s)).
Drop(s, i) == SubSeq(s, i, Len(s))

\* Python `needle in s` for strings.
Contains(s, needle) ==
    \E i \in 1..(Len(s) - Len(needle) + 1) :
        \A k \in 1..Len(needle) : s[i + k - 1] = needle[k]

\* Whether regular expression p (atoms only) matches s at position i.
MatchAt(s, i, p) ==
    /\ i + Len(p) - 1 <= Len(s)
    /\ \A k \in 1..Len(p) :
           IF p[k] = DOT THEN s[i + k - 1] # NL ELSE s[i + k - 1] = p[k]

\* A raw string interpolated into a pattern without escaping: "." becomes the
\* any-character atom (the model's alphabet holds no other metacharacter).
Unescaped(raw) == [k \in 1..Len(raw) |-> IF raw[k] = "." THEN DOT ELSE raw[k]]

\* re.escape(raw): every character stands for itself.
re_escape(raw) == raw

\* Where "^" matches under re.MULTILINE: at the start and after each newline.
AtLineStart(s, i) == i = 1 \/ s[i - 1] = NL

\* re.sub("^" p, repl, s, flags=re.MULTILINE) for a non-empty atom pattern p:
\* leftmost non-overlapping matches, scanned on the original string.
RECURSIVE SubFrom(_, _, _, _)
SubFrom(p, repl, s, i) ==
    IF i > Len(s) THEN <<>>
    ELSE IF AtLineStart(s, i) /\ MatchAt(s, i, p)
         THEN repl \o SubFrom(p, repl, s, i + Len(p))
         ELSE LET nls == {j \in i..Len(s) : s[j] = NL}
                  stop == IF nls = {} THEN Len(s)
                          ELSE CHOOSE j \in nls : \A k \in nls : j <= k
              IN  SubSeq(s, i, stop) \o SubFrom(p, repl, s, stop + 1)

re_sub_multiline(p, repl, s) == SubFrom(p, repl, s, 1)

\* re.sub("^" p "$", repl, s) with no flags: "^" matches at the start of the
\* string only, "$" at its end or before a newline that ends it.
re_sub_anchored(p, repl, s) ==
    IF /\ MatchAt(s, 1, p)
       /\ \/ Len(s) = Len(p)
          \/ Len(s) = Len(p) + 1 /\ s[Len(s)] = NL
    THEN repl \o Drop(s, Len(p) + 1)
    ELSE s

\* The characters str.strip() removes: the 29 for which str.isspace() holds.
\* The ten ASCII ones are tab, newline, U+000B, form feed, carriage return,
\* U+001C to U+001F (written as the characters themselves) and space.
AsciiWhitespace ==
    { "\t", NL, "\f", "\r", " ", "", "", "", "", "" }

\* The nineteen outside ASCII, each named by its code point.
UnicodeWhitespace ==
    { "U+0085", "U+00A0", "U+1680",
      "U+2000", "U+2001", "U+2002", "U+2003", "U+2004", "U+2005",
      "U+2006", "U+2007", "U+2008", "U+2009", "U+200A",
      "U+2028", "U+2029", "U+202F", "U+205F", "U+3000" }

Whitespace == AsciiWhitespace \cup UnicodeWhitespace

\* str.strip()
RECURSIVE LStrip(_)
LStrip(s) == IF s # <<>> /\ Head(s) \in Whitespace THEN LStrip(Tail(s)) ELSE s
RECURSIVE RStrip(_)
RStrip(s) ==
    IF s # <<>> /\ s[Len(s)] \in Whitespace
    THEN RStrip(SubSeq(s, 1, Len(s) - 1)) ELSE s
Strip(s) == RStrip(LStrip(s))

----------------------------------------------------------------------------
(* Static tables *)

INCLUDE == <<"#","i","n","c","l","u","d","e"," ">>
PLUS == <<"+"," ">>

_GTEST_KEY == <<"\"","g","t","e","s","t","/","g","t","e","s","t",".","h","\"">>
_GTEST_VALUE == <<"\"","t","e","s","t","/","g","t","e","s","t",".","h","\"">>

GMOCK_KEY == <<"\"","g","m","o","c","k","/","g","m","o","c","k",".","h","\"">>
GMOCK_VALUE == <<"\"","t","e","s","t","/","g","m","o","c","k",".","h","\"">>
SOCKET_KEY == <<"<","s","y","s","/","s","o","c","k","e","t",".","h",">">>
SOCKET_VALUE == <<"\"","r","t","c","_","b","a","s","e","/","n","e","t","_","h","e","l","p","e","r","s",".","h","\"">>
LIBYUV_KEY == <<"\"","l","i","b","y","u","v","/">>
LIBYUV_VALUE == <<"\"","t","h","i","r","d","_","p","a","r","t","y","/","l","i","b","y","u","v","/","i","n","c","l","u","d","e","/","l","i","b","y","u","v","/">>
AOM_KEY == <<"\"","a","o","m","/">>
AOM_VALUE == <<"\"","t","h","i","r","d","_","p","a","r","t","y","/","l","i","b","a","o","m","/","s","o","u","r","c","e","/","l","i","b","a","o","m","/","a","o","m","/">>
VPX_KEY == <<"\"","v","p","x","/">>
VPX_VALUE == <<"\"","t","h","i","r","d","_","p","a","r","t","y","/","l","i","b","v","p","x","/","s","o","u","r","c","e","/","l","i","b","v","p","x","/","v","p","x","/">>

\* The rewrite table in its iteration (insertion) order.
_IWYU_MAPPING ==
    << [key |-> GMOCK_KEY,  value |-> GMOCK_VALUE],
       [key |-> _GTEST_KEY, value |-> _GTEST_VALUE],
       [key |-> SOCKET_KEY, value |-> SOCKET_VALUE],
       [key |-> LIBYUV_KEY, value |-> LIBYUV_VALUE],
       [key |-> AOM_KEY,    value |-> AOM_VALUE],
       [key |-> VPX_KEY,    value |-> VPX_VALUE] >>

_SUFFICES == { <<".","c","c">>, <<".","h">> }

----------------------------------------------------------------------------
(* Output and content adjustment *)

\* _modified_output: the cleaner's output with the gtest false positive dropped.
_modified_output(output, content) ==
    IF Contains(content, _GTEST_VALUE)
    THEN re_sub_anchored(PLUS \o Unescaped(_GTEST_KEY), <<>>, output)
    ELSE output

\* The first substitution of _modified_content: drop the deprecated include.
RemoveGtestKey(content) ==
    IF Contains(content, _GTEST_VALUE)
    THEN re_sub_multiline(INCLUDE \o Unescaped(_GTEST_KEY) \o <<NL>>, <<>>, content)
    ELSE content

\* Mutant: the substitution for one entry without re.MULTILINE.
ApplyEntry_NoMultiline(entry, content) ==
    IF MatchAt(content, 1, INCLUDE \o re_escape(entry.key))
    THEN INCLUDE \o entry.value \o Drop(content, Len(INCLUDE \o entry.key) + 1)
    ELSE content

\* One pass of the loop over the table: the substitution for one entry.
ApplyEntry(entry, content) ==
    re_sub_multiline(INCLUDE \o re_escape(entry.key), INCLUDE \o entry.value, content)

\* The loop over _IWYU_MAPPING, entries k..end applied in order.
RECURSIVE ApplyMapping(_, _)
ApplyMapping(k, content) ==
    IF k > Len(_IWYU_MAPPING) THEN content
    ELSE ApplyMapping(k + 1, ApplyEntry(_IWYU_MAPPING[k], content))

_modified_content(content) == ApplyMapping(1, RemoveGtestKey(content))

\* Mutant: the output of a failed cleaner run discarded.
apply_include_cleaner_to_file_DropsFailed(content, should_modify, result) ==
    LET output == IF result.returncode # 0 THEN << >>
                  ELSE _modified_output(Strip(result.stdout), content)
        modified_content == _modified_content(content)
        wrote == should_modify /\ content # modified_content
    IN  [ output  |-> output,
          wrote   |-> wrote,
          disk    |-> IF wrote THEN modified_content ELSE content,
          printed |-> (IF result.returncode # 0
                       THEN << [kind |-> "failed", text |-> Strip(result.stderr)] >>
                       ELSE << >>)
                      \o (IF output # << >>
                          THEN << [kind |-> "output", text |-> output] >>
                          ELSE << [kind |-> "success", text |-> << >>] >>) ]

\* The body of apply_include_cleaner_to_file once the cleaner has returned
\* `result` and left `content` on disk: what the script prints, whether it
\* writes the file, what the file holds afterwards and what it returns.
apply_include_cleaner_to_file(content, should_modify, result) ==
    LET output == _modified_output(Strip(result.stdout), content)
        modified_content == _modified_content(content)
        wrote == should_modify /\ content # modified_content
    IN  [ output  |-> output,
          wrote   |-> wrote,
          disk    |-> IF wrote THEN modified_content ELSE content,
          printed |-> (IF result.returncode # 0
                       THEN << [kind |-> "failed", text |-> Strip(result.stderr)] >>
                       ELSE << >>)
                      \o (IF output # << >>
                          THEN << [kind |-> "output", text |-> output] >>
                          ELSE << [kind |-> "success", text |-> << >>] >>) ]

\* pathlib's PurePath.suffix: the final component's last dot and what follows
\* it, unless that dot starts or ends the component.
Suffix(path) ==
    LET slashes == {j \in 1..Len(path) : path[j] = "/"}
        from == IF slashes = {} THEN 1
                ELSE 1 + CHOOSE j \in slashes : \A k \in slashes : k <= j
        name == Drop(path, from)
        dots == {j \in 1..Len(name) : name[j] = "."}
        i == IF dots = {} THEN 0 ELSE CHOOSE j \in dots : \A k \in dots : k <= j
    IN  IF 1 < i /\ i < Len(name) THEN Drop(name, i) ELSE << >>

\* Mutant: the suffix looked for anywhere in the path.
SupportedSuffix_Anywhere(file) == \E suffix \in _SUFFICES : Contains(file, suffix)

\* The suffix test of main's loop.
SupportedSuffix(file) == Suffix(file) \in _SUFFICES

\* _is_built: the file is built when `gn refs` exits with 0.
_is_built(gn_returncode) == gn_returncode = 0

\* Mutant: the generator run without check=True.
_generate_compile_commands_Unchecked(db, gen_returncode) ==
    IF db # "absent"
    THEN [ invoked |-> FALSE, raised |-> FALSE, db |-> db ]
    ELSE [ invoked |-> TRUE, raised |-> FALSE,
           db |-> IF gen_returncode = 0 THEN "generated" ELSE "partial" ]

\* _generate_compile_commands on a work dir whose compile_commands.json is
\* `db`, with a generator that would exit with gen_returncode: whether the
\* generator is invoked, whether CalledProcessError is raised, and the file
\* afterwards (opened with "w+" before the generator runs).
_generate_compile_commands(db, gen_returncode) ==
    IF db # "absent"
    THEN [ invoked |-> FALSE, raised |-> FALSE, db |-> db ]
    ELSE [ invoked |-> TRUE, raised |-> gen_returncode # 0,
           db |-> IF gen_returncode = 0 THEN "generated" ELSE "partial" ]

\* Mutant: the loop always at the first file.
CurrentFile_First(a, i) == a.files[1]

\* The file main's loop is at.
CurrentFile(a, i) == a.files[i]

\* Mutant: check mode forgotten when the mode is chosen.
ShouldModify_PrintOnly(a) == ~a.print

\* main's choice of mode from the flags.
ShouldModify(a) == ~(a.print \/ a.check_for_changes)

\* Mutant: exit status 1 on changes in any mode.
ExitStatus_AnyMode(changes, a) == IF changes THEN 1 ELSE 0

\* main's exit status once the loop has ended.
ExitStatus(changes, a) == IF changes /\ a.check_for_changes THEN 1 ELSE 0

----------------------------------------------------------------------------
(* Line view of a text, used to draw inputs and to state properties *)

\* s.split("\n")
RECURSIVE SplitLines(_)
SplitLines(s) ==
    LET nls == {j \in 1..Len(s) : s[j] = NL}
    IN  IF nls = {} THEN << s >>
        ELSE LET j == CHOOSE x \in nls : \A y \in nls : x <= y
             IN  << SubSeq(s, 1, j - 1) >> \o SplitLines(Drop(s, j + 1))

\* "\n".join(ls)
RECURSIVE JoinLines(_)
JoinLines(ls) ==
    IF ls = << >> THEN << >>
    ELSE IF Len(ls) = 1 THEN ls[1]
    ELSE ls[1] \o << NL >> \o JoinLines(Tail(ls))

SeqsUpTo(S, n) == UNION { [1..k -> S] : k \in 0..n }

StartsWith(s, p) == Len(p) <= Len(s) /\ SubSeq(s, 1, Len(p)) = p

L_GTEST == INCLUDE \o _GTEST_KEY
L_CANON == INCLUDE \o _GTEST_VALUE
L_GMOCK == INCLUDE \o GMOCK_KEY
L_SOCKET == INCLUDE \o SOCKET_KEY
L_MAIN == <<"i","n","t"," ","m","a","i","n","(",")","{","}">>
COMMENT == <<" ","/","/"," ","c">>
\* An include that differs from the deprecated one in the character at its dot.
L_GTEST_UNDERSCORE == INCLUDE \o <<"\"","g","t","e","s","t","/","g","t","e","s","t","_","h","\"">>
L_GTEST_COMMENT == L_GTEST \o COMMENT
L_LIBYUV == INCLUDE \o LIBYUV_KEY \o <<"x",".","h","\"">> \o COMMENT
L_AOM == INCLUDE \o AOM_KEY \o <<"x",".","h","\"">>
L_VPX == INCLUDE \o VPX_KEY \o <<"x",".","h","\"">>
L_INDENTED == << " " >> \o L_GMOCK
L_CANON_IN_COMMENT == <<"/","/"," ">> \o _GTEST_VALUE

ContentLines ==
    { L_GTEST, L_CANON, L_GMOCK, L_SOCKET, L_MAIN, L_GTEST_UNDERSCORE,
      L_GTEST_COMMENT, L_LIBYUV, L_AOM, L_VPX, L_INDENTED, L_CANON_IN_COMMENT }

\* The two rewrite scenarios the documentation spells out.
ScenarioMapping == JoinLines(<< L_GMOCK, L_GTEST, L_MAIN, << >> >>)
ScenarioStray == JoinLines(<< L_CANON, L_GTEST, L_MAIN, << >> >>)

\* File contents: up to MaxLines lines, with and without a final newline.
Contents ==
    { JoinLines(ls) \o t : ls \in SeqsUpTo(ContentLines, MaxLines),
                           t \in { << >>, << NL >> } }
    \cup { ScenarioMapping, ScenarioStray }

O_GTEST == PLUS \o _GTEST_KEY
O_REMOVE == <<"-"," ","\"","a",".","h","\"">>
O_GMOCK == PLUS \o GMOCK_VALUE

OutputLines == { O_GTEST, O_REMOVE, O_GMOCK }

\* How a stdout may end: nothing, a newline, a form feed, a no-break space
\* (all stripped), or a letter outside ASCII (kept).
StdoutTails == { << >>, << NL >>, << "\f" >>, << "U+00A0" >>, << "U+00E9" >> }

\* What the cleaner may write to its stdout.
Stdouts ==
    { JoinLines(ls) \o t : ls \in SeqsUpTo(OutputLines, MaxOutLines),
                           t \in StdoutTails }

\* Contents of the file the cleaner is run on, for the single-call view.
CallContents ==
    { JoinLines(<< L_CANON, L_MAIN, << >> >>),
      JoinLines(<< L_CANON, L_GTEST, << >> >>),
      JoinLines(<< L_GTEST, L_MAIN, << >> >>),
      JoinLines(<< L_MAIN, << >> >>),
      JoinLines(<< L_CANON_IN_COMMENT, L_MAIN, << >> >>) }

Stderrs == { << >>, <<"e","r","r",NL>> }

\* Files that exist in the checkout: a source, a header, and a script in a
\* directory named like a source.
P_CC == <<"a",".","c","c">>
P_H == <<"b",".","h">>
P_PY == <<"d",".","c","c","/","e",".","p","y">>

Paths == { P_CC, P_H, P_PY }

\* Contents of the files of the checkout during a run.
C_STRAY == JoinLines(<< L_CANON, L_GTEST, << >> >>)
C_CLEAN == JoinLines(<< L_MAIN, << >> >>)

RunContents == { C_STRAY, C_CLEAN }

\* What the cleaner writes to stdout during a run.
RunStdouts == { << "\f", NL >>, O_GTEST \o << NL >>, O_REMOVE \o << NL >> }

\* The file as the cleaner leaves it: untouched under --print=changes, any
\* content under --edit.
CleanerLeaves(content, should_modify) ==
    IF should_modify THEN { content } \cup RunContents ELSE { content }

----------------------------------------------------------------------------
(* State *)

VARIABLES
    mc,                 \* the content rewrite applied repeatedly: <<c, f(c), ...>>
    call,               \* one call of apply_include_cleaner_to_file
    args,               \* parsed command line: print, check_for_changes, files
    disk,               \* content of each file of the checkout
    compile_db,         \* compile_commands.json: absent, present, generated, partial
    cleaner_binary,     \* whether the clang-include-cleaner binary exists
    pc,                 \* idle, start, loop, done, aborted
    idx,                \* position of main's loop in args.files
    should_modify,      \* main's should_modify
    changes_generated,  \* main's changes_generated
    exit_status,        \* process exit status, -1 while running
    calls,              \* external commands run and files written, in order
    last                \* the latest return of apply_include_cleaner_to_file

runVars == << args, disk, compile_db, cleaner_binary, pc, idx, should_modify,
              changes_generated, exit_status, calls, last >>
vars == << mc, call, args, disk, compile_db, cleaner_binary, pc, idx,
           should_modify, changes_generated, exit_status, calls, last >>

NoCall == [ phase |-> "none" ]
NoArgs == [ print |-> FALSE, check_for_changes |-> FALSE, files |-> << >> ]

\* The driver's variables when no run is modelled.
RunIdle ==
    /\ args = NoArgs
    /\ disk = [p \in Paths |-> C_CLEAN]
    /\ compile_db = "present"
    /\ cleaner_binary = TRUE
    /\ pc = "idle"
    /\ idx = 0
    /\ should_modify = FALSE
    /\ changes_generated = FALSE
    /\ exit_status = -1
    /\ calls = << >>
    /\ last = NoCall

----------------------------------------------------------------------------
(* The content rewrite as a function: inputs drawn, the function applied *)

InitContent ==
    /\ mc \in { << c >> : c \in Contents }
    /\ call = NoCall
    /\ RunIdle

ApplyModifiedContent ==
    /\ mc # << >>
    /\ Len(mc) <= MaxPasses
    /\ mc' = Append(mc, _modified_content(mc[Len(mc)]))
    /\ UNCHANGED << call, runVars >>

NextContent == ApplyModifiedContent

SpecContent == InitContent /\ [][NextContent]_vars

----------------------------------------------------------------------------
(* One call of apply_include_cleaner_to_file: inputs drawn, the body applied *)

InitCall ==
    /\ mc = << >>
    /\ call \in { [ phase |-> "called", content |-> c, should_modify |-> m,
                    result |-> [returncode |-> rc, stdout |-> o, stderr |-> e] ] :
                  c \in CallContents, m \in BOOLEAN, rc \in {0, 1},
                  o \in Stdouts, e \in Stderrs }
    /\ RunIdle

ReturnFromCall ==
    /\ call.phase = "called"
    /\ call' = [ phase |-> "returned", content |-> call.content,
                 should_modify |-> call.should_modify, result |-> call.result,
                 ret |-> apply_include_cleaner_to_file(
                             call.content, call.should_modify, call.result) ]
    /\ UNCHANGED << mc, runVars >>

NextCall == ReturnFromCall

SpecCall == InitCall /\ [][NextCall]_vars

----------------------------------------------------------------------------
(* Properties of the output adjustment *)

\* The text with every line equal to `line` taken out.
WithoutLine(text, line) ==
    JoinLines(SelectSeq(SplitLines(text), LAMBDA l : l # line))

\* C2: when the content holds the canonical spelling, every line of the
\* cleaner's (stripped) stdout that reads + "gtest/gtest.h" is taken out of the
\* output returned and printed, wherever it stands, and the other lines are
\* kept; otherwise the output is the stripped stdout.
C2_StripsEveryGtestLine ==
    call.phase = "returned" =>
        LET raw == Strip(call.result.stdout)
            expected == IF Contains(call.content, _GTEST_VALUE)
                        THEN WithoutLine(raw, O_GTEST)
                        ELSE raw
        IN  /\ call.ret.output = expected
            /\ expected # << >> =>
                  call.ret.printed[Len(call.ret.printed)] =
                      [kind |-> "output", text |-> expected]

----------------------------------------------------------------------------
(* Properties of the content rewrite *)

\* A line with the prefix `#include <key>` of a table entry respelled, the rest
\* of the line kept; any other line as it is.
RewriteLine(l) ==
    LET hits == { k \in DOMAIN _IWYU_MAPPING :
                      StartsWith(l, INCLUDE \o _IWYU_MAPPING[k].key) }
    IN  IF hits = {} THEN l
        ELSE LET e == _IWYU_MAPPING[CHOOSE k \in hits : TRUE]
             IN  INCLUDE \o e.value \o Drop(l, Len(INCLUDE) + Len(e.key) + 1)

RewriteLines(text) ==
    LET ls == SplitLines(text)
    IN  JoinLines([i \in DOMAIN ls |-> RewriteLine(ls[i])])

\* C7: for a content that holds the deprecated include line beside the
\* canonical include line (and no other line the table respells), the rewrite
\* is the content with exactly the deprecated include lines taken out.
C7_RemovesExactlyDeprecated ==
    Len(mc) >= 2 =>
        LET c == mc[1]
            ls == SplitLines(c)
        IN  ( /\ Contains(c, _GTEST_VALUE)
              /\ \E i \in DOMAIN ls : ls[i] = L_CANON
              /\ \E i \in DOMAIN ls : ls[i] = L_GTEST
              /\ \A i \in DOMAIN ls : ls[i] # L_GTEST => RewriteLine(ls[i]) = ls[i] )
            => mc[2] = WithoutLine(c, L_GTEST)

\* C8: the rewrite is idempotent: a second application changes nothing.
C8_Idempotent ==
    Len(mc) >= 3 => mc[3] = mc[2]

\* C9: in the text the table loop receives (the content, less the deprecated
\* includes dropped beforehand when the canonical spelling is present), every
\* line that starts with `#include <key>` has that prefix replaced by `#include
\* <value>` and its remainder kept, and every other line is unchanged; the
\* gmock/gtest scenario comes out as documented.
C9_PrefixRewrite ==
    Len(mc) >= 2 =>
        /\ ~Contains(mc[1], _GTEST_VALUE) => mc[2] = RewriteLines(mc[1])
        /\ Contains(mc[1], _GTEST_VALUE) => mc[2] = RewriteLines(RemoveGtestKey(mc[1]))
        /\ mc[1] = ScenarioMapping =>
              mc[2] = JoinLines(<< INCLUDE \o GMOCK_VALUE, INCLUDE \o _GTEST_VALUE,
                                   L_MAIN, << >> >>)

C9_Witness ==
    /\ Len(mc) >= 2
    /\ mc[1] = JoinLines(<< L_INDENTED, L_LIBYUV, << >> >>)
    /\ mc[2] = JoinLines(<< L_INDENTED,
                            INCLUDE \o LIBYUV_VALUE \o <<"x",".","h","\"">> \o COMMENT,
                            << >> >>)

----------------------------------------------------------------------------
(* A run of main *)

FileLists == UNION { [1..k -> Paths] : k \in 1..MaxFiles }

Init ==
    /\ mc = << >>
    /\ call = NoCall
    /\ args \in [ print : BOOLEAN, check_for_changes : BOOLEAN, files : FileLists ]
    /\ disk \in { d \in [Paths -> RunContents] :
                      \A p \in Paths : ~SupportedSuffix(p) => d[p] = C_CLEAN }
    /\ compile_db \in { "absent", "present" }
    /\ cleaner_binary \in BOOLEAN
    /\ pc = "start"
    /\ idx = 0
    /\ should_modify = FALSE
    /\ changes_generated = FALSE
    /\ exit_status = -1
    /\ calls = << >>
    /\ last = NoCall

\* main up to its loop: the compile database is generated when absent (a failing
\* generator raises out of main), then the mode is chosen.
Startup ==
    /\ pc = "start"
    /\ \E gen_returncode \in {0, 1} :
         LET g == _generate_compile_commands(compile_db, gen_returncode)
         IN  /\ compile_db' = g.db
             /\ calls' = IF g.invoked
                         THEN << [op |-> "generate_compdb", returncode |-> gen_returncode] >>
                         ELSE << >>
             /\ IF g.raised
                THEN /\ pc' = "aborted"
                     /\ exit_status' = 1
                     /\ UNCHANGED << idx, should_modify >>
                ELSE /\ pc' = "loop"
                     /\ idx' = 1
                     /\ should_modify' = ShouldModify(args)
                     /\ UNCHANGED exit_status
    /\ changes_generated' = FALSE
    /\ UNCHANGED << mc, call, args, disk, cleaner_binary, last >>

\* An iteration on a file whose suffix is not supported: `continue`.
SkipSuffix ==
    /\ pc = "loop"
    /\ idx <= Len(args.files)
    /\ ~SupportedSuffix(CurrentFile(args, idx))
    /\ idx' = idx + 1
    /\ UNCHANGED << mc, call, args, disk, compile_db, cleaner_binary, pc,
                    should_modify, changes_generated, exit_status, calls, last >>

GnEvent(file, rc) == [op |-> "gn_refs", path |-> file, returncode |-> rc]

\* An iteration on a file gn does not reference: notice printed, `continue`.
SkipNotBuilt ==
    /\ pc = "loop"
    /\ idx <= Len(args.files)
    /\ SupportedSuffix(CurrentFile(args, idx))
    /\ \E gn_returncode \in {0, 1} :
         /\ ~_is_built(gn_returncode)
         /\ calls' = Append(calls, GnEvent(CurrentFile(args, idx), gn_returncode))
    /\ idx' = idx + 1
    /\ UNCHANGED << mc, call, args, disk, compile_db, cleaner_binary, pc,
                    should_modify, changes_generated, exit_status, last >>

\* An iteration that runs the cleaner on the file.  Launching a binary that
\* does not exist raises out of main; any exit code of the cleaner is accepted.
RunCleaner ==
    /\ pc = "loop"
    /\ idx <= Len(args.files)
    /\ SupportedSuffix(CurrentFile(args, idx))
    /\ \E gn_returncode \in {0, 1} :
         /\ _is_built(gn_returncode)
         /\ LET file == CurrentFile(args, idx)
                gn == GnEvent(file, gn_returncode)
            IN  IF ~cleaner_binary
                THEN /\ calls' = Append(calls, gn)
                     /\ pc' = "aborted"
                     /\ exit_status' = 1
                     /\ UNCHANGED << idx, disk, changes_generated, last >>
                ELSE \E rc \in {0, 1}, out \in RunStdouts,
                        left \in CleanerLeaves(disk[file], should_modify) :
                       LET result == [returncode |-> rc, stdout |-> out, stderr |-> << >>]
                           ret == apply_include_cleaner_to_file(left, should_modify, result)
                       IN  /\ calls' = calls \o
                                 << gn,
                                    [op |-> "cleaner", path |-> file, returncode |-> rc,
                                     changed |-> ret.output # << >>] >> \o
                                 (IF ret.wrote THEN << [op |-> "write", path |-> file] >>
                                  ELSE << >>)
                           /\ disk' = [disk EXCEPT ![file] = ret.disk]
                           /\ changes_generated' = (ret.output # << >> \/ changes_generated)
                           /\ last' = [ phase |-> "returned", path |-> file, content |-> left,
                                        should_modify |-> should_modify, result |-> result,
                                        ret |-> ret ]
                           /\ idx' = idx + 1
                           /\ UNCHANGED << pc, exit_status >>
    /\ UNCHANGED << mc, call, args, compile_db, cleaner_binary, should_modify >>

\* After the loop: the reminder is printed and the exit status decided.
Finish ==
    /\ pc = "loop"
    /\ idx > Len(args.files)
    /\ pc' = "done"
    /\ exit_status' = ExitStatus(changes_generated, args)
    /\ UNCHANGED << mc, call, args, disk, compile_db, cleaner_binary, idx,
                    should_modify, changes_generated, calls, last >>

Next == Startup \/ SkipSuffix \/ SkipNotBuilt \/ RunCleaner \/ Finish

Spec == Init /\ [][Next]_vars

----------------------------------------------------------------------------
(* Properties of a run of main *)

CleanerEvents == { i \in DOMAIN calls : calls[i].op = "cleaner" }
WriteEvents == { i \in DOMAIN calls : calls[i].op = "write" }
GnEvents == { i \in DOMAIN calls : calls[i].op = "gn_refs" }
GenerateEvents == { i \in DOMAIN calls : calls[i].op = "generate_compdb" }

CountOn(events, p) == Cardinality({ i \in events : calls[i].path = p })

\* The entries of the list the loop has gone through (the entry it raised on
\* included).
Visited ==
    IF pc = "aborted" /\ idx >= 1 THEN SubSeq(args.files, 1, idx)
    ELSE IF idx >= 1 THEN SubSeq(args.files, 1, idx - 1)
    ELSE << >>

Occurrences(seq, p) == Cardinality({ i \in DOMAIN seq : seq[i] = p })

HasSourceSuffix(path) == Suffix(path) \in { <<".","c","c">>, <<".","h">> }

\* C1: a run that gets through its loop exits with 1 exactly when check mode
\* was requested and some processed file had non-empty adjusted output, and
\* with 0 otherwise, whatever exit codes the cleaner returned.
C1_ExitStatus ==
    pc = "done" =>
        /\ exit_status \in {0, 1}
        /\ exit_status = 1 <=>
              /\ args.check_for_changes
              /\ \E i \in CleanerEvents : calls[i].changed

C1_Witness ==
    /\ pc = "done"
    /\ exit_status = 1
    /\ \E i \in CleanerEvents : calls[i].changed /\ calls[i].returncode # 0
    /\ \E i \in CleanerEvents : ~calls[i].changed

\* C3: the script writes a file exactly when should_modify is set (neither
\* --print nor --check-for-changes) and the rewrite differs from the content it
\* read; in print and check mode it writes nothing, and in edit mode a file whose
\* rewrite equals its content is left as read.
C3_WritesOnlyWhenModifying ==
    /\ pc \in {"loop", "done"} =>
          should_modify = (~args.print /\ ~args.check_for_changes)
    /\ (args.print \/ args.check_for_changes) => WriteEvents = {}
    /\ last.phase = "returned" =>
          LET differs == _modified_content(last.content) # last.content
              k == CHOOSE i \in CleanerEvents : \A j \in CleanerEvents : j <= i
              written == /\ k < Len(calls)
                         /\ calls[k + 1].op = "write"
                         /\ calls[k + 1].path = last.path
          IN  /\ written <=> (should_modify /\ differs)
              /\ disk[last.path] = IF should_modify /\ differs
                                   THEN _modified_content(last.content)
                                   ELSE last.content
    /\ \A i \in WriteEvents :
          i > 1 /\ calls[i - 1].op = "cleaner" /\ calls[i - 1].path = calls[i].path

C3_Witness ==
    /\ pc = "done"
    /\ should_modify
    /\ WriteEvents # {}
    /\ last.phase = "returned"
    /\ calls[Len(calls)].op = "cleaner"
    /\ _modified_content(last.content) = last.content
    /\ last.result.returncode # 0

\* A step of the loop that skips its file: the suffix is not supported, or gn
\* has just answered that the file is not built.
SkipStep ==
    /\ pc = "loop"
    /\ idx <= Len(args.files)
    /\ idx' = idx + 1
    /\ \/ ~HasSourceSuffix(args.files[idx])
       \/ /\ calls' # << >>
          /\ calls'[Len(calls')].op = "gn_refs"
          /\ calls'[Len(calls')].returncode # 0

C4_CallsAreGated ==
    /\ \A i \in GnEvents : HasSourceSuffix(calls[i].path)
    /\ \A i \in CleanerEvents :
          /\ HasSourceSuffix(calls[i].path)
          /\ i > 1
          /\ calls[i - 1] = [op |-> "gn_refs", path |-> calls[i].path, returncode |-> 0]
    /\ \A p \in Paths : CountOn(GnEvents, p) <= Occurrences(Visited, p)

\* C4: gn is asked only about files with suffix .cc or .h, the cleaner runs only
\* on such files for which gn has just answered 0, and a skipped file leaves
\* changes_generated as it was.
C4_SkipsLeaveNoTrace ==
    /\ []C4_CallsAreGated
    /\ [][SkipStep => changes_generated' = changes_generated]_vars

C4_Witness ==
    /\ pc = "done"
    /\ changes_generated
    /\ Len(args.files) = 2
    /\ HasSourceSuffix(args.files[1])
    /\ ~HasSourceSuffix(args.files[2])

\* C5: a non-zero exit code of the cleaner aborts nothing: the run stops early
\* only for a failed generator or a missing binary, the file's output is
\* adjusted and counted all the same, every visited file with a source suffix
\* that gn reports built is passed to the cleaner in list order, and the loop
\* goes on to the exit-status decision.
C5_FailedCleanerDoesNotAbort ==
    /\ pc = "aborted" => (compile_db = "partial" \/ ~cleaner_binary)
    /\ LET asked == SelectSeq(calls, LAMBDA e : e.op = "gn_refs")
           due == SelectSeq(Visited, HasSourceSuffix)
       IN  /\ Len(asked) = Len(due)
           /\ \A i \in DOMAIN asked : asked[i].path = due[i]
    /\ \A i \in GnEvents :
          calls[i].returncode = 0 =>
             \/ /\ i < Len(calls)
                /\ calls[i + 1].op = "cleaner"
                /\ calls[i + 1].path = calls[i].path
             \/ /\ ~cleaner_binary
                /\ pc = "aborted"
                /\ i = Len(calls)
    /\ \A i \in CleanerEvents : calls[i].changed => changes_generated
    /\ last.phase = "returned" =>
          LET k == CHOOSE i \in CleanerEvents : \A j \in CleanerEvents : j <= i
              adjusted == _modified_output(Strip(last.result.stdout), last.content)
          IN  /\ last.ret.output = adjusted
              /\ calls[k].changed = (adjusted # << >>)
              /\ calls[k].returncode = last.result.returncode
    /\ pc = "loop" => ENABLED Next
    /\ pc = "done" => (idx = Len(args.files) + 1 /\ exit_status \in {0, 1})

C5_Witness ==
    /\ pc = "done"
    /\ \E i, j \in CleanerEvents :
          /\ i < j
          /\ calls[i].returncode # 0
          /\ calls[i].changed
          /\ calls[i].path # calls[j].path

\* C6: the generator runs exactly when compile_commands.json was absent at
\* startup, an existing database is left as it is, and a failing generator
\* ends the run in an error before any file is looked at: no gn query, no
\* cleaner run, no write.
C6_CompileDatabase ==
    /\ pc = "start" => (compile_db \in {"absent", "present"} /\ calls = << >>)
    /\ pc # "start" =>
          /\ compile_db \in {"present", "generated", "partial"}
          /\ compile_db = "present" => GenerateEvents = {}
          /\ compile_db # "present" =>
                /\ GenerateEvents = {1}
                /\ calls[1].returncode = 0 <=> compile_db = "generated"
          /\ compile_db = "partial" =>
                /\ pc = "aborted"
                /\ exit_status = 1
                /\ Len(calls) = 1
                /\ idx = 0
                /\ last = NoCall

C6_Witness ==
    /\ pc = "aborted"
    /\ compile_db = "partial"
    /\ Len(args.files) = 2
    /\ \E p \in Paths : disk[p] = C_STRAY

\* C10 as claimed: in a run, the cleaner is invoked on each file at most once
\* and the script writes each file at most once, even when the list names a
\* path more than once.
C10_TouchedAtMostOnce ==
    \A p \in Paths :
        /\ CountOn(CleanerEvents, p) <= 1
        /\ CountOn(WriteEvents, p) <= 1

\* C10 as amended: each entry of the list is processed at most once, so a path
\* is cleaned at most as often as the list names it and written at most as
\* often as it is cleaned; a path named once is touched at most once.
C10_TouchedOncePerEntry ==
    \A p \in Paths :
        /\ CountOn(CleanerEvents, p) <= Occurrences(Visited, p)
        /\ CountOn(WriteEvents, p) <= CountOn(CleanerEvents, p)
        /\ Occurrences(args.files, p) <= 1 =>
              (CountOn(CleanerEvents, p) <= 1 /\ CountOn(WriteEvents, p) <= 1)

C10_Witness ==
    /\ pc = "done"
    /\ \E p \in Paths :
          /\ Occurrences(args.files, p) = 2
          /\ CountOn(CleanerEvents, p) = 2
          /\ CountOn(WriteEvents, p) = 2

====
